---------------------------- MODULE Spec2Model ----------------------------
(***************************************************************************)
(* populate_database.py: the ingest pipeline of local-rag-demo.            *)
(*                                                                         *)
(*   main: [--reset -> clear_database]; load_documents; add_to_chroma      *)
(*                                                                         *)
(* The state is the file system (the PDF and CSV source directories, the   *)
(* Chroma directory with the collection it persists) and the position and  *)
(* locals of the one run of main that is in progress.  Two specifications: *)
(*   Spec     runs of main over a corpus that is edited between runs;      *)
(*   SpecIds  add_to_chroma applied to an arbitrary list of documents.     *)
(***************************************************************************)
EXTENDS Integers, Sequences, FiniteSets, TLC

\* ------------------------------------------------------------------ bounds
MaxSplit == 2     \* most chunks the splitter cuts one PDF page into
MaxRows  == 2     \* most data rows of the CSV file
MaxRuns  == 2     \* runs of main in one behaviour
MaxLen   == 6     \* longest document list given to add_to_chroma (SpecIds)

\* ------------------------------------------------------ the source folders
PDF_PATH == "data/pdf"
CSV_PATH == "data/csv"

PdfFile == PDF_PATH \o "/a.pdf"      \* the one PDF of the corpus
CsvFile == CSV_PATH \o "/c.csv"      \* the one CSV of the corpus
Pages   == {0, 1}                    \* page numbers of the PDF (pypdf: from 0)

OtherCsv == CSV_PATH \o "/d.csv"     \* a second CSV, in the corpora of SpecFiles
CsvFiles == <<CsvFile, OtherCsv>>

\* A data frame, as pd.read_csv returns it: the column names and the rows, a
\* row being one cell per column, <<>> for a missing cell (NaN) and <<text>>
\* for a present one.
DataFrame(columns, rows) == [columns |-> columns, rows |-> rows]

\* the frame of a file of n data rows with the one column "text", no cell missing
PlainFrame(n) ==
    DataFrame(<<"text">>, [i \in 1..n |-> <<<<"row" \o ToString(i - 1)>>>>])

\* A corpus: per PDF page its text, named by the number of chunks the splitter
\* cuts it into (0: a page without text); whether CSV_PATH exists; the data
\* frames of the .csv files in it, the i-th being CsvFiles[i] (none, or the one
\* file).
Corpora ==
    {c \in [pdf : [Pages -> 0..MaxSplit], csv_dir : BOOLEAN,
            csv : {<<>>} \cup {<<PlainFrame(n)>> : n \in 0..MaxRows}] :
        ~c.csv_dir => c.csv = <<>>}

\* both folders exist and hold nothing that yields a chunk
EmptyCorpus ==
    [pdf |-> [p \in Pages |-> 0], csv_dir |-> TRUE, csv |-> <<>>]

VARIABLES
    fs,            \* the corpus on disk
    db_exists,     \* os.path.exists(CHROMA_PATH)
    store,         \* the persisted collection: id -> page_content
    pc,            \* position of the run of main
    runs,          \* runs started so far
    args_reset,    \* args.reset
    chunks,        \* main: chunks / add_to_chroma: chunks_with_ids
    existing_ids,  \* add_to_chroma: existing_ids
    new_chunks,    \* add_to_chroma: new_chunks
    add_calls,     \* the db.add_documents calls of this run: their ids= lists
    trace,         \* the calls of this run, in order
    console,       \* the lines add_to_chroma and main print in this run
    start_ids,     \* history: the ids in the collection when this run started
    prev           \* history: the id set the last completed run left (valid),
                   \* or that the last run crashed before its write (crashed),
                   \* while neither the corpus nor the store has been touched
                   \* since

vars == <<fs, db_exists, store, pc, runs, args_reset, chunks, existing_ids,
          new_chunks, add_calls, trace, console, start_ids, prev>>

EmptyStore == [i \in {} |-> ""]
NoPrev     == [valid |-> FALSE, crashed |-> FALSE, ids |-> {}]

\* ------------------------------------------------------------- documents
\* Document(page_content, metadata)
Document(content, meta) == [page_content |-> content, metadata |-> meta]

\* f"{metadata.get(key)}": the value as text, "None" when the key is absent
\* (source is a string already, page and row are integers)
FmtGet(meta, key) ==
    IF key \notin DOMAIN meta THEN "None"
    ELSE IF key = "source" THEN meta[key]
    ELSE ToString(meta[key])

\* faulty variant: the metadata is replaced by the one key
SetMetaOnly(doc, key, value) ==
    [doc EXCEPT !.metadata = [k \in {key} |-> value]]

\* metadata[key] = value
SetMeta(doc, key, value) ==
    [doc EXCEPT !.metadata =
        [k \in DOMAIN doc.metadata \cup {key} |->
            IF k = key THEN value ELSE doc.metadata[k]]]

RECURSIVE Concat(_)
Concat(ss) == IF ss = <<>> THEN <<>> ELSE Head(ss) \o Concat(Tail(ss))


\* ---------------------------------------------------------- load_documents
\* pdf_loader: one document per page of the PDF, in page order
pdf_loader(corpus) ==
    [i \in 1..Cardinality(Pages) |->
        Document([page |-> i - 1, pieces |-> corpus.pdf[i - 1]],
                 [source |-> PdfFile, page |-> i - 1])]

\* text_splitter.split_documents on one document: the pieces of its text, in
\* order, each with the document's metadata
SplitOne(doc) ==
    [k \in 1..doc.page_content.pieces |->
        Document("page" \o ToString(doc.page_content.page)
                    \o "/text" \o ToString(doc.page_content.pieces)
                    \o "/piece" \o ToString(k),
                 doc.metadata)]

split_documents(documents) ==
    Concat([i \in 1..Len(documents) |-> SplitOne(documents[i])])

\* pd.notna(cell_content)
NotNa(cell) == cell # <<>>

\* faulty variant: a missing cell leaves an empty line in the body
RECURSIVE RowContentBlank(_, _, _)
RowContentBlank(columns, row, k) ==
    IF k > Len(columns) THEN <<>>
    ELSE <<IF NotNa(row[k]) THEN columns[k] \o ": " \o row[k][1] ELSE "">>
             \o RowContentBlank(columns, row, k + 1)

\* lines 82-87: the "col: value" lines of the cells of a row that are not
\* missing, from column k on
RECURSIVE RowContent(_, _, _)
RowContent(columns, row, k) ==
    IF k > Len(columns) THEN <<>>
    ELSE (IF NotNa(row[k]) THEN <<columns[k] \o ": " \o row[k][1]>> ELSE <<>>)
             \o RowContent(columns, row, k + 1)

\* sep.join(lines)
RECURSIVE Join(_, _)
Join(lines, sep) ==
    IF lines = <<>> THEN ""
    ELSE IF Len(lines) = 1 THEN lines[1]
    ELSE lines[1] \o sep \o Join(Tail(lines), sep)

\* parse_csv_to_list: one document per row of the data frame, the index of
\* the row (from 0) as its row metadata
parse_csv_to_list(file_path, df) ==
    [i \in 1..Len(df.rows) |->
        Document(Join(RowContent(df.columns, df.rows[i], 1), "\n"),
                 [source |-> file_path, row |-> i - 1])]

\* csv_loader raises: CSV_PATH.iterdir() on a missing directory (line 106), or
\* file_data[0] on a file without data rows (line 114)
CsvLoaderRaises(corpus) ==
    \/ ~corpus.csv_dir
    \/ \E i \in 1..Len(corpus.csv) : Len(corpus.csv[i].rows) = 0

\* the orders in which CSV_PATH.iterdir() may list the .csv files (line 106):
\* the order is the file system's
IterDir(corpus) ==
    {order \in [1..Len(corpus.csv) -> 1..Len(corpus.csv)] :
        \A i, j \in 1..Len(corpus.csv) : order[i] = order[j] => i = j}

csv_loader(corpus, order) ==
    Concat([k \in 1..Len(order) |->
               parse_csv_to_list(CsvFiles[order[k]], corpus.csv[order[k]])])

\* faulty variant: the CSV documents are put before the PDF chunks
load_documents_csv_first(corpus, order) ==
    csv_loader(corpus, order) \o split_documents(pdf_loader(corpus))

\* lines 44-47: the chunks of the PDF pages, then the CSV documents as they are
load_documents(corpus, order) ==
    split_documents(pdf_loader(corpus)) \o csv_loader(corpus, order)

\* ------------------------------------------------------ calculate_chunk_ids
\* Python's None as the initial last_page_id: no page id equals it, since every
\* page id holds a ":"
None == "None"

\* current_page_id = f"{source}:{page}"
PageId(meta) == FmtGet(meta, "source") \o ":" \o FmtGet(meta, "page")

\* faulty variant: the index is never incremented
NextChunkIndexStuck(current_page_id, last_page_id, current_chunk_index) ==
    IF current_page_id = last_page_id THEN current_chunk_index ELSE 0

\* faulty variant: the index is never reset
NextChunkIndexNoReset(current_page_id, last_page_id, current_chunk_index) ==
    IF last_page_id = None THEN 0 ELSE current_chunk_index + 1

\* lines 174-177: the index of this chunk, from the previous chunk's
NextChunkIndex(current_page_id, last_page_id, current_chunk_index) ==
    IF current_page_id = last_page_id THEN current_chunk_index + 1 ELSE 0

\* chunk_id = f"{current_page_id}:{current_chunk_index}"
ChunkId(current_page_id, current_chunk_index) ==
    current_page_id \o ":" \o ToString(current_chunk_index)

\* the for loop from its i-th chunk on, with the loop's two locals
RECURSIVE IdLoop(_, _, _, _)
IdLoop(cs, i, last_page_id, current_chunk_index) ==
    IF i > Len(cs) THEN cs
    ELSE LET current_page_id == PageId(cs[i].metadata)
             index == NextChunkIndex(current_page_id, last_page_id,
                                     current_chunk_index)
             chunk_id == ChunkId(current_page_id, index)
         IN IdLoop([cs EXCEPT ![i] = SetMeta(cs[i], "id", chunk_id)],
                   i + 1, current_page_id, index)

calculate_chunk_ids(cs) == IdLoop(cs, 1, None, 0)

\* ------------------------------------------------------------ add_to_chroma
Ids(cs) == [i \in 1..Len(cs) |-> cs[i].metadata["id"]]

Range(f) == {f[i] : i \in DOMAIN f}

\* faulty variant: set(existing_items), the keys of the result, instead of its "ids"
ExistingIdsKeys(st) == IF st = EmptyStore THEN {} ELSE {"ids", "documents"}

\* lines 139-140: set(db.get(include=[])["ids"]), the ids the collection holds
ExistingIds(st) == DOMAIN st

\* faulty variant: the membership test is inverted
NewChunksInverted(chunks_with_ids, existing) ==
    SelectSeq(chunks_with_ids, LAMBDA chunk : chunk.metadata["id"] \in existing)

\* faulty variant: no membership test, every chunk is new
NewChunksAll(chunks_with_ids, existing) == chunks_with_ids

\* faulty variant: a chunk whose id an earlier chunk of the list carries is dropped
RECURSIVE DedupFrom(_, _, _)
DedupFrom(chunks_with_ids, existing, i) ==
    IF i > Len(chunks_with_ids) THEN <<>>
    ELSE (IF /\ chunks_with_ids[i].metadata["id"] \notin existing
             /\ \A j \in 1..(i - 1) :
                   chunks_with_ids[j].metadata["id"] # chunks_with_ids[i].metadata["id"]
          THEN <<chunks_with_ids[i]>> ELSE <<>>)
             \o DedupFrom(chunks_with_ids, existing, i + 1)

NewChunksDedup(chunks_with_ids, existing) == DedupFrom(chunks_with_ids, existing, 1)

\* lines 144-147: the chunks whose id is not in existing_ids, in order
NewChunks(chunks_with_ids, existing) ==
    SelectSeq(chunks_with_ids, LAMBDA chunk : chunk.metadata["id"] \notin existing)

\* the collection after db.add_documents(docs, ids=ids): an upsert, the last
\* document given under an id is the one kept
AddDocuments(st, docs, ids) ==
    [id \in DOMAIN st \cup Range(ids) |->
        IF id \in Range(ids)
        THEN docs[CHOOSE i \in 1..Len(ids) :
                     ids[i] = id /\ \A j \in (i + 1)..Len(ids) : ids[j] # id].page_content
        ELSE st[id]]

\* faulty variants: main clears whatever the flag, main never clears
ResetAlways(reset) == TRUE

ResetNever(reset) == FALSE

\* args.reset decides whether main calls clear_database (line 28)
ResetRequested(reset) == reset

\* --------------------------------------------------------------- the run
Run(step) == trace' = trace \o step

Init ==
    /\ fs = EmptyCorpus
    /\ db_exists = FALSE
    /\ store = EmptyStore
    /\ pc = "idle"
    /\ runs = 0
    /\ args_reset = FALSE
    /\ chunks = <<>>
    /\ existing_ids = {}
    /\ new_chunks = <<>>
    /\ add_calls = <<>>
    /\ trace = <<>>
    /\ console = <<>>
    /\ start_ids = {}
    /\ prev = NoPrev

\* main, lines 25-27: a run starts and parses its arguments.  It finds the
\* source folders as the operator left them since the last run.
ParseArgs(reset, corpus) ==
    /\ pc = "idle"
    /\ runs < MaxRuns
    /\ runs' = runs + 1
    /\ fs' = corpus
    /\ prev' = IF corpus = fs THEN prev ELSE NoPrev
    /\ args_reset' = reset
    /\ pc' = "parsed"
    /\ start_ids' = DOMAIN store
    /\ UNCHANGED <<db_exists, store, chunks, existing_ids, new_chunks,
                   add_calls, trace, console>>

\* faulty variant: clear_database without its os.path.exists test: shutil.rmtree
\* raises on a missing directory
ClearDatabaseUnguarded ==
    /\ pc = "parsed"
    /\ ResetRequested(args_reset)
    /\ console' = Append(console, <<"Clearing Database">>)
    /\ Run(<<"clear_database", "shutil.rmtree">>)
    /\ IF db_exists
       THEN db_exists' = FALSE /\ store' = EmptyStore /\ pc' = "cleared"
       ELSE UNCHANGED <<db_exists, store>> /\ pc' = "failed"
    /\ prev' = NoPrev
    /\ UNCHANGED <<fs, runs, args_reset, chunks, existing_ids, new_chunks,
                   add_calls, start_ids>>

\* faulty variant: clear_database tests another path than the one Chroma persists to,
\* and removes nothing
ClearDatabaseElsewhere ==
    /\ pc = "parsed"
    /\ ResetRequested(args_reset)
    /\ console' = Append(console, <<"Clearing Database">>)
    /\ Run(<<"clear_database">>)
    /\ pc' = "cleared"
    /\ UNCHANGED <<fs, db_exists, store, runs, args_reset, chunks, existing_ids,
                   new_chunks, add_calls, start_ids, prev>>

\* main, lines 28-30, and clear_database
ClearDatabase ==
    /\ pc = "parsed"
    /\ ResetRequested(args_reset)
    /\ console' = Append(console, <<"Clearing Database">>)
    /\ IF db_exists
       THEN /\ db_exists' = FALSE
            /\ store' = EmptyStore
            /\ Run(<<"clear_database", "shutil.rmtree">>)
       ELSE /\ UNCHANGED <<db_exists, store>>
            /\ Run(<<"clear_database">>)
    /\ prev' = NoPrev
    /\ pc' = "cleared"
    /\ UNCHANGED <<fs, runs, args_reset, chunks, existing_ids, new_chunks,
                   add_calls, start_ids>>

AtLoad == pc = "cleared" \/ (pc = "parsed" /\ ~ResetRequested(args_reset))

\* main, line 33: load_documents returns
LoadDocuments ==
    /\ AtLoad
    /\ ~CsvLoaderRaises(fs)
    /\ \E order \in IterDir(fs) : chunks' = load_documents(fs, order)
    /\ Run(<<"pdf_loader", "split_documents", "csv_loader">>)
    /\ pc' = "loaded"
    /\ UNCHANGED <<fs, db_exists, store, runs, args_reset, existing_ids,
                   new_chunks, add_calls, console, start_ids, prev>>

\* faulty variant: the collection is opened, and so created, before the documents
\* are loaded
LoadDocumentsRaisesOpened ==
    /\ AtLoad
    /\ CsvLoaderRaises(fs)
    /\ db_exists' = TRUE
    /\ Run(<<"Chroma", "pdf_loader", "split_documents", "csv_loader">>)
    /\ pc' = "failed"
    /\ UNCHANGED <<fs, store, runs, args_reset, chunks, existing_ids,
                   new_chunks, add_calls, console, start_ids, prev>>

\* main, line 33: csv_loader raises and the run ends
LoadDocumentsRaises ==
    /\ AtLoad
    /\ CsvLoaderRaises(fs)
    /\ Run(<<"pdf_loader", "split_documents", "csv_loader">>)
    /\ pc' = "failed"
    /\ UNCHANGED <<fs, db_exists, store, runs, args_reset, chunks, existing_ids,
                   new_chunks, add_calls, console, start_ids, prev>>

\* add_to_chroma, lines 131-133: Chroma(persist_directory=...) opens the
\* collection, creating the directory when there is none
OpenStore ==
    /\ pc = "loaded"
    /\ db_exists' = TRUE
    /\ Run(<<"Chroma">>)
    /\ pc' = "opened"
    /\ UNCHANGED <<fs, store, runs, args_reset, chunks, existing_ids, new_chunks,
                   add_calls, console, start_ids, prev>>

\* faulty variant: the collection is opened after the ids are assigned
OpenStoreRaisesLate ==
    /\ pc = "assigned"
    /\ Run(<<"Chroma">>)
    /\ pc' = "failed"
    /\ UNCHANGED <<fs, db_exists, store, runs, args_reset, chunks, existing_ids,
                   new_chunks, add_calls, console, start_ids, prev>>

\* add_to_chroma, lines 131-133: the collection cannot be opened or created,
\* Chroma(...) raises and the run ends
OpenStoreRaises ==
    /\ pc = "loaded"
    /\ Run(<<"Chroma">>)
    /\ pc' = "failed"
    /\ UNCHANGED <<fs, db_exists, store, runs, args_reset, chunks, existing_ids,
                   new_chunks, add_calls, console, start_ids, prev>>

\* add_to_chroma, line 136
AssignIds ==
    /\ pc = "opened"
    /\ chunks' = calculate_chunk_ids(chunks)
    /\ Run(<<"calculate_chunk_ids">>)
    /\ pc' = "assigned"
    /\ UNCHANGED <<fs, db_exists, store, runs, args_reset, existing_ids,
                   new_chunks, add_calls, console, start_ids, prev>>

\* add_to_chroma, lines 139-141
QueryExisting ==
    /\ pc = "assigned"
    /\ existing_ids' = ExistingIds(store)
    /\ console' = Append(console, <<"Number of existing documents in DB",
                                    Cardinality(ExistingIds(store))>>)
    /\ Run(<<"db.get">>)
    /\ pc' = "queried"
    /\ UNCHANGED <<fs, db_exists, store, runs, args_reset, chunks, new_chunks,
                   add_calls, start_ids, prev>>

HasDuplicates(ids) == \E i, j \in 1..Len(ids) : i < j /\ ids[i] = ids[j]

\* faulty variant: one db.add_documents call per new chunk instead of one for all
AddNewPerChunk ==
    /\ pc = "queried"
    /\ LET new == NewChunks(chunks, existing_ids)
       IN /\ new_chunks' = new
          /\ IF Len(new) # 0
             THEN /\ console' = Append(console, <<"Adding new documents", Len(new)>>)
                  /\ add_calls' = add_calls \o [i \in 1..Len(new) |-> <<Ids(new)[i]>>]
                  /\ store' = AddDocuments(store, new, Ids(new))
                  /\ Run([i \in 1..Len(new) |-> "db.add_documents"])
             ELSE /\ console' = Append(console, <<"No new documents to add">>)
                  /\ UNCHANGED <<add_calls, store, trace>>
    /\ pc' = "done"
    /\ UNCHANGED <<fs, db_exists, runs, args_reset, chunks, existing_ids,
                   start_ids, prev>>

\* add_to_chroma, lines 144-154
AddNew ==
    /\ pc = "queried"
    /\ LET new == NewChunks(chunks, existing_ids)
       IN /\ new_chunks' = new
          /\ IF Len(new) # 0
             THEN /\ console' = Append(console, <<"Adding new documents", Len(new)>>)
                  /\ add_calls' = Append(add_calls, Ids(new))
                  /\ store' = AddDocuments(store, new, Ids(new))
                  /\ Run(<<"db.add_documents">>)
             ELSE /\ console' = Append(console, <<"No new documents to add">>)
                  /\ UNCHANGED <<add_calls, store, trace>>
    /\ pc' = "done"
    /\ UNCHANGED <<fs, db_exists, runs, args_reset, chunks, existing_ids,
                   start_ids, prev>>

\* add_to_chroma, line 152, when the collection refuses a batch that names an
\* id twice: db.add_documents raises and nothing is stored
AddNewRejected ==
    /\ pc = "queried"
    /\ LET new == NewChunks(chunks, existing_ids)
       IN /\ HasDuplicates(Ids(new))
          /\ new_chunks' = new
          /\ console' = Append(console, <<"Adding new documents", Len(new)>>)
          /\ add_calls' = Append(add_calls, Ids(new))
          /\ Run(<<"db.add_documents">>)
    /\ pc' = "failed"
    /\ UNCHANGED <<fs, db_exists, store, runs, args_reset, chunks, existing_ids,
                   start_ids, prev>>

\* add_to_chroma, between lines 141 and 152: the process is killed after the
\* ids were read and before db.add_documents is called
CrashBeforeWrite ==
    /\ pc = "queried"
    /\ pc' = "crashed"
    /\ UNCHANGED <<fs, db_exists, store, runs, args_reset, chunks, existing_ids,
                   new_chunks, add_calls, trace, console, start_ids, prev>>

\* the process ends: its locals are gone, the file system stays
Exit ==
    /\ pc \in {"done", "failed", "crashed"}
    /\ pc' = "idle"
    /\ prev' = IF pc = "done"
               THEN [valid |-> TRUE, crashed |-> FALSE, ids |-> DOMAIN store]
               ELSE IF pc = "crashed"
               THEN [valid |-> FALSE, crashed |-> TRUE, ids |-> DOMAIN store]
               ELSE prev
    /\ args_reset' = FALSE
    /\ chunks' = <<>>
    /\ existing_ids' = {}
    /\ new_chunks' = <<>>
    /\ add_calls' = <<>>
    /\ trace' = <<>>
    /\ console' = <<>>
    /\ start_ids' = {}
    /\ UNCHANGED <<fs, db_exists, store, runs>>

Next ==
    \/ \E reset \in BOOLEAN, corpus \in Corpora : ParseArgs(reset, corpus)
    \/ ClearDatabase
    \/ LoadDocuments
    \/ LoadDocumentsRaises
    \/ OpenStore
    \/ OpenStoreRaises
    \/ AssignIds
    \/ QueryExisting
    \/ AddNew
    \/ CrashBeforeWrite
    \/ Exit

Spec == Init /\ [][Next]_vars

\* ------------------------------------------- add_to_chroma on any documents
\* The documents add_to_chroma may be given: chunks of two pages of the PDF,
\* rows of the CSV.
Documents ==
    {Document("text", [source |-> PdfFile, page |-> p]) : p \in {1, 2}}
        \cup {Document("text", [source |-> CsvFile, row |-> r]) : r \in {0, 1}}

\* the collections it may find: none, or one an earlier run has written to
Collections ==
    {EmptyStore, [id \in {PdfFile \o ":1:0"} |-> "earlier text"]}

InitIds ==
    /\ fs = EmptyCorpus
    /\ store \in Collections
    /\ db_exists = (store # EmptyStore)
    /\ pc = "loaded"
    /\ runs = 1
    /\ args_reset = FALSE
    /\ chunks \in UNION {[1..n -> Documents] : n \in 0..MaxLen}
    /\ existing_ids = {}
    /\ new_chunks = <<>>
    /\ add_calls = <<>>
    /\ trace = <<"pdf_loader", "split_documents", "csv_loader">>
    /\ console = <<>>
    /\ start_ids = DOMAIN store
    /\ prev = NoPrev

NextIds ==
    \/ OpenStore
    \/ AssignIds
    \/ QueryExisting
    \/ AddNew
    \/ AddNewRejected

SpecIds == InitIds /\ [][NextIds]_vars

\* ------------------------------------ one run over a corpus of several files
\* the frame of the second CSV: another column, other cells
OtherFrame(n) ==
    DataFrame(<<"name">>, [i \in 1..n |-> <<<<"item" \o ToString(i - 1)>>>>])

\* the corpora of this specification: the PDF, and none, one or both of the
\* CSV files, each of at least one data row
FileCorpora ==
    [pdf : [Pages -> 0..MaxSplit], csv_dir : {TRUE},
     csv : {<<>>} \cup {<<PlainFrame(n)>> : n \in 1..MaxRows}
                  \cup {<<PlainFrame(n), OtherFrame(m)>> : n, m \in 1..MaxRows}]

\* main has parsed a command line without --reset; there is no collection yet
InitFiles ==
    /\ fs \in FileCorpora
    /\ db_exists = FALSE
    /\ store = EmptyStore
    /\ pc = "parsed"
    /\ runs = 1
    /\ args_reset = FALSE
    /\ chunks = <<>>
    /\ existing_ids = {}
    /\ new_chunks = <<>>
    /\ add_calls = <<>>
    /\ trace = <<>>
    /\ console = <<>>
    /\ start_ids = {}
    /\ prev = NoPrev

NextFiles ==
    \/ LoadDocuments
    \/ OpenStore
    \/ AssignIds
    \/ QueryExisting
    \/ AddNew

SpecFiles == InitFiles /\ [][NextFiles]_vars

\* --------------------------------------- loading one CSV with missing cells
Columns == <<"name", "age", "city">>

\* a row of the file: per column the cell, missing or holding the column's value
Rows ==
    {<<name, age, city>> : name \in {<<>>, <<"Bob">>}, age \in {<<>>, <<"30">>},
                           city \in {<<>>, <<"NYC">>}}

\* the frames pd.read_csv may return for the file
CellFrames ==
    {DataFrame(Columns, rows) : rows \in UNION {[1..n -> Rows] : n \in 0..MaxRows}}

\* main has parsed a command line without --reset; the corpus is the one CSV
InitCsv ==
    /\ \E df \in CellFrames :
          fs = [pdf |-> [p \in Pages |-> 0], csv_dir |-> TRUE, csv |-> <<df>>]
    /\ db_exists = FALSE
    /\ store = EmptyStore
    /\ pc = "parsed"
    /\ runs = 1
    /\ args_reset = FALSE
    /\ chunks = <<>>
    /\ existing_ids = {}
    /\ new_chunks = <<>>
    /\ add_calls = <<>>
    /\ trace = <<>>
    /\ console = <<>>
    /\ start_ids = {}
    /\ prev = NoPrev

NextCsv ==
    \/ LoadDocuments
    \/ LoadDocumentsRaises

SpecCsv == InitCsv /\ [][NextCsv]_vars

\* ================================================================ claims
Called(step) == step \in Range(trace)

\* the add_documents calls of this run, as the list of ids written
Written == Concat(add_calls)

\* C1 -- idempotence: a run without --reset that follows a completed run, with
\* the source folders and the collection untouched in between, finds no new
\* chunk, does not call db.add_documents, and leaves the id set the first run
\* left.
C1_Idempotent ==
    (pc = "done" /\ prev.valid /\ ~args_reset) =>
        /\ new_chunks = <<>>
        /\ add_calls = <<>>
        /\ ~Called("db.add_documents")
        /\ DOMAIN store = prev.ids

\* a second run over an unchanged corpus of at least two chunks has completed
C1_Witness ==
    /\ pc = "done" /\ prev.valid /\ ~args_reset
    /\ Len(chunks) >= 2
    /\ Range(Ids(chunks)) = prev.ids

\* C2 -- no overwrite: every id add_to_chroma passes to db.add_documents is
\* absent from the id set it read from the collection, and the step that
\* writes leaves every id the collection held with the content it had.
C2_NeverOverwrites ==
    [][pc = "queried" =>
          /\ \A k \in 1..Len(add_calls') : \A i \in 1..Len(add_calls'[k]) :
                 add_calls'[k][i] \notin existing_ids
          /\ \A id \in DOMAIN store :
                 id \in DOMAIN store' /\ store'[id] = store[id]]_vars

\* a run has written new chunks while an incoming chunk carried the id of a
\* stored document with another content, which the collection still holds
C2_Witness ==
    /\ pc = "done"
    /\ add_calls # <<>>
    /\ \E i \in 1..Len(chunks) :
          /\ chunks[i].metadata["id"] \in existing_ids
          /\ store[chunks[i].metadata["id"]] # chunks[i].page_content

\* C3 -- monotonic growth: a step removes or replaces a stored id only if it
\* is the clear_database of a run started with --reset; so throughout a run
\* without --reset the collection holds every id it held when the run began.
C3_MonotonicGrowth ==
    /\ [][(\A id \in DOMAIN store :
              id \in DOMAIN store' /\ store'[id] = store[id])
          \/ (args_reset /\ pc = "parsed" /\ pc' = "cleared")]_vars
    /\ [](pc # "idle" /\ ~args_reset => start_ids \subseteq (DOMAIN store))
    /\ [](pc # "idle" /\ ~(start_ids \subseteq (DOMAIN store)) =>
              Called("clear_database"))

\* a run without --reset has added ids to a collection that held some
C3_Witness ==
    /\ pc = "done" /\ ~args_reset
    /\ start_ids # {}
    /\ start_ids \subseteq (DOMAIN store)
    /\ start_ids # DOMAIN store

\* the key calculate_chunk_ids groups by: the source and the page metadata (a
\* chunk of a CSV row has no page metadata: <<>>)
Key(doc) ==
    <<doc.metadata["source"],
      IF "page" \in DOMAIN doc.metadata THEN <<doc.metadata["page"]>> ELSE <<>>>>

\* the chunks that share a key lie next to each other
Contiguous(cs) ==
    \A i, j \in 1..Len(cs) :
        (i < j /\ Key(cs[i]) = Key(cs[j])) =>
            \A k \in i..j : Key(cs[k]) = Key(cs[i])

BlockStart(cs, i) ==
    CHOOSE s \in 1..i :
        /\ \A k \in s..i : Key(cs[k]) = Key(cs[i])
        /\ s = 1 \/ Key(cs[s - 1]) # Key(cs[i])

ExampleKeys ==
    <<<<PdfFile, <<1>>>>, <<PdfFile, <<1>>>>, <<PdfFile, <<1>>>>,
      <<PdfFile, <<2>>>>, <<PdfFile, <<2>>>>, <<PdfFile, <<1>>>>>>

HeldIds == IF Called("clear_database") THEN {} ELSE start_ids

\* the positions of the incoming chunks whose id the collection did not hold
NewPositions == {i \in 1..Len(chunks) : chunks[i].metadata["id"] \notin HeldIds}

\* the count the run reported as added: 0 for "No new documents to add"
ReportedAdded ==
    LET line == console[Len(console)]
    IN IF line[1] = "Adding new documents" THEN line[2] ELSE 0

\* C6 -- partition: when add_to_chroma ends, the documents it has written are
\* exactly the incoming chunks whose id the collection did not hold (the
\* collection holds these, with their contents, besides what it held), and
\* the count it reports is the number of chunks written.
C6_Partition ==
    pc = "done" =>
        /\ Range(Written) = {chunks[i].metadata["id"] : i \in NewPositions}
        /\ Len(Written) = Cardinality(NewPositions)
        /\ DOMAIN store = HeldIds \cup Range(Written)
        /\ \A i \in NewPositions :
              store[chunks[i].metadata["id"]] = chunks[i].page_content
        /\ console[Len(console)] \in
              {<<"Adding new documents", Len(Written)>>, <<"No new documents to add">>}
        /\ ReportedAdded = Len(Written)
        /\ ReportedAdded = Cardinality(DOMAIN store \ HeldIds)

\* the example: the collection held the id :1:0, the incoming chunks have the
\* ids :1:0 and :1:1, the chunk :1:1 alone is written and the count is 1
C6_Witness ==
    /\ pc = "done"
    /\ existing_ids = {PdfFile \o ":1:0"}
    /\ Ids(chunks) = <<PdfFile \o ":1:0", PdfFile \o ":1:1">>
    /\ add_calls = <<<<PdfFile \o ":1:1">>>>
    /\ console[Len(console)] = <<"Adding new documents", 1>>

\* the locator the specification names: the page of a PDF chunk, the row of a
\* CSV chunk
Locator(doc) ==
    IF "page" \in DOMAIN doc.metadata THEN doc.metadata["page"]
    ELSE doc.metadata["row"]

\* the zero-based ordinal of chunk i among the chunks of its source and locator
Ordinal(cs, i) ==
    Cardinality({j \in 1..(i - 1) :
        /\ cs[j].metadata["source"] = cs[i].metadata["source"]
        /\ ("page" \in DOMAIN cs[j].metadata) = ("page" \in DOMAIN cs[i].metadata)
        /\ Locator(cs[j]) = Locator(cs[i])})

\* C7 -- id format: every chunk leaving calculate_chunk_ids has the id
\* "{source}:{locator}:{sequence_index}", the locator being the page number of
\* a PDF chunk and the row index of a CSV chunk, the sequence index the
\* chunk's ordinal among the chunks of its source and locator.
C7_IdFormat ==
    Called("calculate_chunk_ids") =>
        \A i \in 1..Len(chunks) :
            chunks[i].metadata["id"] =
                chunks[i].metadata["source"] \o ":" \o ToString(Locator(chunks[i]))
                    \o ":" \o ToString(Ordinal(chunks, i))

\* C8 -- reset then ingest: in a run started with --reset the id set read
\* from the collection is empty, whatever the collection held when the run
\* began; the run takes every chunk of the corpus as new and writes them all.
C8_ResetThenIngest ==
    /\ (args_reset /\ Called("db.get")) => existing_ids = {}
    /\ (args_reset /\ pc = "done") =>
          /\ new_chunks = chunks
          /\ Written = Ids(chunks)
          /\ DOMAIN store = Range(Ids(chunks))
          /\ \A i \in 1..Len(chunks) :
                store[chunks[i].metadata["id"]] = chunks[i].page_content

\* a run with --reset has removed a collection that held ids, some of them
\* ids of chunks of the corpus, and has written every chunk of the corpus
C8_Witness ==
    /\ args_reset /\ pc = "done"
    /\ Called("shutil.rmtree")
    /\ start_ids \cap Range(Ids(chunks)) # {}
    /\ start_ids \ Range(Ids(chunks)) # {}
    /\ Len(add_calls) = 1 /\ Len(add_calls[1]) = Len(chunks)

\* C9 -- reset on a missing store: clear_database, called while the Chroma
\* directory does not exist, raises nothing and changes nothing on disk, and
\* the run goes on to load the documents.
C9_ResetMissingStore ==
    /\ [][(pc = "parsed" /\ args_reset /\ ~db_exists) =>
             /\ pc' = "cleared"
             /\ UNCHANGED <<db_exists, store, fs>>
             /\ trace' = Append(trace, "clear_database")]_vars
    /\ [][(pc = "cleared" /\ ~Called("shutil.rmtree")) =>
             (Called("pdf_loader"))']_vars

\* a run that was started with --reset while there was no Chroma directory
\* has loaded its documents and opened the collection
C9_Witness ==
    /\ args_reset
    /\ Called("clear_database") /\ ~Called("shutil.rmtree")
    /\ pc = "opened"
    /\ chunks # <<>>

Once(step) == Cardinality({i \in 1..Len(trace) : trace[i] = step}) <= 1

\* when both were called in this run, a was called before b
Before(a, b) ==
    \A i, j \in 1..Len(trace) : (trace[i] = a /\ trace[j] = b) => i < j

\* b was called only after a had been called
Needs(b, a) == Called(b) => (Called(a) /\ Before(a, b))

\* C10 -- order of steps: a run calls clear_database, which leaves no store
\* on disk, exactly if --reset was given, and does so before it loads a
\* document or opens or queries the collection; the other steps come, each at
\* most once, in the order load, chunk, assign ids, query existing ids, write.
C10_StepOrder ==
    /\ pc \notin {"idle", "parsed"} => (Called("clear_database") <=> args_reset)
    /\ Called("shutil.rmtree") => (args_reset /\ Called("clear_database"))
    /\ Called("clear_database") => trace[1] = "clear_database"
    /\ (Called("clear_database") /\ ~Called("Chroma")) =>
          (~db_exists /\ store = EmptyStore)
    /\ \A step \in {"pdf_loader", "split_documents", "csv_loader", "Chroma",
                     "calculate_chunk_ids", "db.get", "db.add_documents"} :
          /\ Once(step)
          /\ Before("clear_database", step)
          /\ Before("shutil.rmtree", step)
    /\ Needs("split_documents", "pdf_loader")
    /\ Needs("calculate_chunk_ids", "split_documents")
    /\ Needs("calculate_chunk_ids", "csv_loader")
    /\ Needs("db.get", "calculate_chunk_ids")
    /\ Needs("db.get", "Chroma")
    /\ Needs("db.add_documents", "db.get")

\* a run with --reset has removed the store and gone through every step
C10_Witness ==
    /\ pc = "done" /\ args_reset
    /\ trace = <<"clear_database", "shutil.rmtree", "pdf_loader", "split_documents",
                 "csv_loader", "Chroma", "calculate_chunk_ids", "db.get",
                 "db.add_documents">>

\* the run has ended in load_documents, by an exception
LoadRaised == pc = "failed" /\ trace # <<>> /\ trace[Len(trace)] = "csv_loader"

\* the PDF folder yields no document text, the CSV folder is missing or holds
\* no .csv file
NoPdfText(corpus) == \A p \in Pages : corpus.pdf[p] = 0

NoCsvSource(corpus) == ~corpus.csv_dir \/ corpus.csv = <<>>

\* C11 -- loader tolerance: when a source folder is missing or holds no
\* matching file, the loader returns no document for that source type and the
\* run does not fail: the chunks of the other type are loaded and, when the
\* run is done, in the collection.
C11_LoaderTolerance ==
    ((NoPdfText(fs) \/ NoCsvSource(fs)) /\ Called("csv_loader")) =>
        /\ ~LoadRaised
        /\ NoCsvSource(fs) => chunks = calculate_chunk_ids(split_documents(pdf_loader(fs)))
                                 \/ chunks = split_documents(pdf_loader(fs))
        /\ pc = "done" => Range(Ids(chunks)) \subseteq (DOMAIN store)

\* the run has ended in Chroma(...), by an exception
OpenRaised == pc = "failed" /\ trace # <<>> /\ trace[Len(trace)] = "Chroma"

\* C12, as claimed -- a run whose store open fails has loaded and split no
\* document and assigned no id.
C12_OpenFailureBeforeChunks ==
    OpenRaised =>
        /\ ~Called("pdf_loader") /\ ~Called("split_documents") /\ ~Called("csv_loader")
        /\ ~Called("calculate_chunk_ids")
        /\ chunks = <<>>

\* C12, amended -- a run whose store open fails has ended before any id was
\* assigned and before the collection was queried or written, and leaves the
\* collection as it was; its documents have by then been loaded and split.
C12_OpenFailureBeforeIds ==
    OpenRaised =>
        /\ ~Called("calculate_chunk_ids") /\ ~Called("db.get")
        /\ ~Called("db.add_documents")
        /\ \A i \in 1..Len(chunks) : "id" \notin DOMAIN chunks[i].metadata
        /\ existing_ids = {} /\ add_calls = <<>>
        /\ DOMAIN store = HeldIds
        /\ Called("pdf_loader") /\ Called("split_documents") /\ Called("csv_loader")
        /\ \E order \in IterDir(fs) : chunks = load_documents(fs, order)

\* the store open has failed in a run that had loaded two chunks or more
C12_Witness ==
    /\ OpenRaised
    /\ Len(chunks) >= 2

\* C13 -- crash recovery: a run that crashes after it has read the existing
\* ids and before it calls db.add_documents leaves the collection as it was
\* when add_to_chroma was called; and a run that completes afterwards over the
\* same corpus leaves the id of every chunk of the corpus in the collection.
C13_CrashRecovery ==
    /\ [][pc' = "crashed" => (store' = store /\ db_exists' = db_exists)]_vars
    /\ [](pc = "crashed" =>
             (DOMAIN store = HeldIds /\ existing_ids = HeldIds /\ add_calls = <<>>))
    /\ []((pc = "done" /\ prev.crashed) =>
             /\ Range(Ids(chunks)) \subseteq (DOMAIN store)
             /\ \A i \in 1..Len(chunks) :
                   chunks[i].metadata["id"] \notin prev.ids =>
                       store[chunks[i].metadata["id"]] = chunks[i].page_content)

\* a run without --reset has completed over the corpus of a run that had
\* crashed, and has written the chunks the crashed run had not
C13_Witness ==
    /\ pc = "done" /\ prev.crashed /\ ~args_reset
    /\ Len(add_calls) = 1 /\ Len(add_calls[1]) >= 2
    /\ Range(Ids(chunks)) = DOMAIN store

\* the collection a run of the pipeline leaves when it starts from an empty
\* one, reads the corpus and is handed the CSV files in the given order
RunOnEmpty(corpus, order) ==
    LET chunks_with_ids == calculate_chunk_ids(load_documents(corpus, order))
        new == NewChunks(chunks_with_ids, ExistingIds(EmptyStore))
    IN AddDocuments(EmptyStore, new, Ids(new))

\* C14 -- determinism: the collection a completed run has filled from empty
\* is the collection any other run over the same files fills from empty,
\* whatever the order in which the directory listing hands it the files: the
\* same ids, the same content under each id.
C14_Determinism ==
    (pc = "done" /\ HeldIds = {}) =>
        \A order \in IterDir(fs) : RunOnEmpty(fs, order) = store

\* a completed run that was handed the two CSV files in the order opposite to
\* their names, after the chunks of a PDF page
C14_Witness ==
    /\ pc = "done" /\ HeldIds = {}
    /\ Len(fs.csv) = 2
    /\ \E i, j \in 1..Len(chunks) :
          /\ i < j
          /\ chunks[i].metadata["source"] = OtherCsv
          /\ chunks[j].metadata["source"] = CsvFile
    /\ \E i \in 1..Len(chunks) : chunks[i].metadata["source"] = PdfFile
    /\ Cardinality(DOMAIN store) = Len(chunks)

\* the body the claim gives a row of the name/age/city file, cell by cell
ExpectedBody(row) ==
    LET name == row[1] # <<>>
        age  == row[2] # <<>>
        city == row[3] # <<>>
    IN CASE  name /\  age /\  city -> "name: Bob\nage: 30\ncity: NYC"
         []  name /\  age /\ ~city -> "name: Bob\nage: 30"
         []  name /\ ~age /\  city -> "name: Bob\ncity: NYC"
         []  name /\ ~age /\ ~city -> "name: Bob"
         [] ~name /\  age /\  city -> "age: 30\ncity: NYC"
         [] ~name /\  age /\ ~city -> "age: 30"
         [] ~name /\ ~age /\  city -> "city: NYC"
         [] ~name /\ ~age /\ ~city -> ""

\* C15 -- missing-cell omission: parse_csv_to_list gives one unit per row, in
\* row order, whose body is the "column: value" lines of the present cells
\* only, in column order, joined by single newlines; a missing cell gives no
\* line, no blank line and no error.
C15_MissingCellOmission ==
    LET df == fs.csv[1]
    IN /\ pc = "failed" => Len(df.rows) = 0
       /\ pc = "loaded" =>
             /\ Len(chunks) = Len(df.rows)
             /\ \A i \in 1..Len(chunks) :
                   /\ chunks[i].page_content = ExpectedBody(df.rows[i])
                   /\ chunks[i].metadata = [source |-> CsvFile, row |-> i - 1]

\* the claim's example row, loaded: name=Bob, age missing, city=NYC
C15_Witness ==
    /\ pc = "loaded"
    /\ \E i \in 1..Len(chunks) :
          /\ fs.csv[1].rows[i] = <<<<"Bob">>, <<>>, <<"NYC">>>>
          /\ chunks[i].page_content = "name: Bob\ncity: NYC"

\* add_to_chroma has gone through its partition and what follows it
Partitioned == Called("db.get") /\ pc \in {"done", "failed"}

\* C16 -- single batch write: a run of add_to_chroma calls db.add_documents
\* at most once; when some incoming id was absent from the collection it
\* calls it exactly once, with all new chunks, in order, and their ids as
\* keys; when every incoming id was present it does not call it and the
\* collection stays as it was.
C16_SingleBatchWrite ==
    /\ Len(add_calls) <= 1
    /\ Once("db.add_documents")
    /\ Partitioned =>
          IF NewPositions # {}
          THEN /\ Called("db.add_documents")
               /\ Len(add_calls) = 1
               /\ add_calls[1] = Ids(new_chunks)
               /\ Len(new_chunks) = Cardinality(NewPositions)
               /\ \A i \in NewPositions : chunks[i] \in Range(new_chunks)
               /\ \A k \in 1..Len(new_chunks) :
                     /\ add_calls[1][k] \notin HeldIds
                     /\ \E i \in NewPositions : chunks[i] = new_chunks[k]
               /\ pc = "done" => DOMAIN store = HeldIds \cup Range(add_calls[1])
          ELSE /\ ~Called("db.add_documents")
               /\ add_calls = <<>>
               /\ new_chunks = <<>>
               /\ DOMAIN store = HeldIds

\* a run over a collection that held one of the incoming ids has written the
\* three chunks whose ids it did not hold, in one call
C16_Witness ==
    /\ pc = "done"
    /\ \E i \in 1..Len(chunks) : chunks[i].metadata["id"] \in HeldIds
    /\ Len(add_calls) = 1 /\ Len(add_calls[1]) = 3
    /\ Cardinality(DOMAIN store) = 4

IsCsv(doc) == doc.metadata["source"] \in Range(CsvFiles)

\* the text of data row r of the k-th CSV file of the corpora of SpecFiles
RowText(k, r) ==
    IF k = 1 THEN "text: row" \o ToString(r) ELSE "name: item" \o ToString(r)

\* C17 -- tabular units are never split: in the list load_documents returns
\* every data row of every CSV file is exactly one chunk, with the row's text
\* as its content, every CSV chunk is such a row, and all chunks of the PDF
\* come before all chunks of the CSV files.
C17_TabularUnsplit ==
    (Called("csv_loader") /\ pc # "failed") =>
        /\ \A k \in 1..Len(fs.csv) : \A r \in 0..(Len(fs.csv[k].rows) - 1) :
              /\ Cardinality({i \in 1..Len(chunks) :
                     /\ chunks[i].metadata["source"] = CsvFiles[k]
                     /\ chunks[i].metadata["row"] = r}) = 1
              /\ \A i \in 1..Len(chunks) :
                    (/\ chunks[i].metadata["source"] = CsvFiles[k]
                     /\ chunks[i].metadata["row"] = r)
                        => chunks[i].page_content = RowText(k, r)
        /\ \A i \in 1..Len(chunks) : IsCsv(chunks[i]) =>
              \E k \in 1..Len(fs.csv) :
                  /\ chunks[i].metadata["source"] = CsvFiles[k]
                  /\ chunks[i].metadata["row"] \in 0..(Len(fs.csv[k].rows) - 1)
        /\ \A i, j \in 1..Len(chunks) :
              (IsCsv(chunks[i]) /\ ~IsCsv(chunks[j])) => j < i

\* load_documents has returned the pieces of a PDF page that the splitter cut
\* in two, followed by the rows of two CSV files
C17_Witness ==
    /\ pc = "loaded"
    /\ \E p \in Pages : fs.pdf[p] = 2
    /\ Len(fs.csv) = 2 /\ Len(fs.csv[1].rows) = 2
    /\ \E i \in 1..Len(chunks) : ~IsCsv(chunks[i])
    /\ Cardinality({i \in 1..Len(chunks) : IsCsv(chunks[i])}) >= 3

\* C18 -- a failure inside load_documents: in a run without --reset no step
\* up to the failure changes the persisted collection, which is neither
\* opened nor written; in a run with --reset the failure leaves the store
\* deleted.
C18_LoadFailure ==
    /\ [][(~args_reset' /\ "Chroma" \notin Range(trace')) =>
             (store' = store /\ db_exists' = db_exists)]_vars
    /\ [](LoadRaised =>
             /\ ~Called("Chroma") /\ ~Called("db.get") /\ ~Called("db.add_documents")
             /\ add_calls = <<>>
             /\ ~args_reset => (DOMAIN store = start_ids /\ ~Called("clear_database"))
             /\ args_reset => (/\ Called("clear_database")
                               /\ ~db_exists
                               /\ store = EmptyStore))

\* a run without --reset over a collection an earlier run had filled has
\* failed in csv_loader
C18_Witness ==
    /\ LoadRaised /\ ~args_reset
    /\ db_exists /\ Cardinality(DOMAIN store) >= 2
    /\ \E p \in Pages : fs.pdf[p] > 0

\* how often the id occurs in the list of ids
Occurrences(ids, id) == Cardinality({k \in 1..Len(ids) : ids[k] = id})

\* C19 -- no de-duplication inside the batch: the partition keeps every
\* incoming chunk whose id the collection did not hold, however often the id
\* occurs among the incoming chunks; when two incoming chunks carry the same
\* absent id both are in new_chunks and the id list of the one write holds
\* the id as often as the incoming list does, and the count reported as added
\* is greater than the number of distinct ids the collection has gained.
C19_NoDedupInBatch ==
    Partitioned =>
        /\ Len(new_chunks) = Cardinality(NewPositions)
        /\ \A i, j \in NewPositions :
              (i < j /\ chunks[i].metadata["id"] = chunks[j].metadata["id"]) =>
                  LET id == chunks[i].metadata["id"]
                  IN /\ Occurrences(Ids(new_chunks), id) = Occurrences(Ids(chunks), id)
                     /\ Occurrences(Ids(new_chunks), id) >= 2
                     /\ Len(add_calls) = 1
                     /\ Occurrences(add_calls[1], id) = Occurrences(Ids(chunks), id)
                     /\ ReportedAdded = Len(new_chunks)
                     /\ ReportedAdded > Cardinality(DOMAIN store \ HeldIds)
                     /\ ReportedAdded > Cardinality(Range(add_calls[1]))

\* a completed write whose id list named an absent id twice, next to an id
\* the collection held already
C19_Witness ==
    /\ pc = "done"
    /\ HeldIds # {}
    /\ \E i \in 1..Len(chunks) : chunks[i].metadata["id"] \in HeldIds
    /\ HasDuplicates(Ids(new_chunks))
    /\ Cardinality(DOMAIN store \ HeldIds) >= 2

\* C20 -- calculate_chunk_ids changes the id field only: the step that
\* assigns the ids leaves the list with the same number of chunks, in the same
\* order, each with its content and every metadata field but "id" as before,
\* and with an id; a chunk without page metadata gets an id whose locator
\* reads None.
C20_OnlyIdChanges ==
    [][(pc = "opened" /\ pc' = "assigned") =>
          /\ Len(chunks') = Len(chunks)
          /\ \A i \in 1..Len(chunks) :
                /\ chunks'[i].page_content = chunks[i].page_content
                /\ DOMAIN chunks'[i].metadata = DOMAIN chunks[i].metadata \cup {"id"}
                /\ \A k \in DOMAIN chunks[i].metadata \ {"id"} :
                      chunks'[i].metadata[k] = chunks[i].metadata[k]
                /\ "page" \notin DOMAIN chunks[i].metadata =>
                      \E n \in 0..Len(chunks) :
                          chunks'[i].metadata["id"] =
                              chunks[i].metadata["source"] \o ":None:" \o ToString(n)]_vars

\* ids were assigned to a list that holds chunks of PDF pages and CSV rows,
\* which have no page metadata
C20_Witness ==
    /\ pc = "assigned"
    /\ Len(chunks) >= 3
    /\ \E i \in 1..Len(chunks) :
          /\ "page" \notin DOMAIN chunks[i].metadata
          /\ chunks[i].metadata["row"] = 1
          /\ chunks[i].metadata["id"] = CsvFile \o ":None:1"
    /\ \E i \in 1..Len(chunks) : chunks[i].metadata["id"] = PdfFile \o ":2:0"

=============================================================================
